---- MODULE Spec2Model ----
(***************************************************************************)
(* Geo-Risk Sentry: the data acquisition and risk estimation pipeline of   *)
(* app.py (repository root) and geo-risk-sentry-poc/app.py.                *)
(*                                                                         *)
(* Representation of Python values                                         *)
(*   None            <<>>            a value v that may be None: <<v>>      *)
(*   dict            a record whose DOMAIN is the set of keys present;     *)
(*                   {} is the empty function <<>>; a key bound to None is *)
(*                   not told apart from a key that is absent              *)
(*   str compared by substring or case (tickers, sectors): the sequence    *)
(*                   of its characters; other text: a TLA+ string          *)
(*   f-string        a record holding the template and its arguments       *)
(*   money           integer, in millions of the currency unit             *)
(*   latitude, longitude   integer, in 1/10000 degree                      *)
(*   rain, wind, ESG score integer, in tenths (mm, km/h, points)           *)
(*   float products of calculate_revenue_at_risk: exact fractions <<n, d>> *)
(*                   in lowest terms (rounding of doubles is not modelled) *)
(***************************************************************************)
EXTENDS Integers, Sequences, FiniteSets, TLC

\* ------------------------------------------------------------------------
\* Python values
\* ------------------------------------------------------------------------

None == <<>>

Some(v) == <<v>>

\* `x is not None` in place of bool(x)
Truthy_not_none(o) == o # None

\* bool(x) of a number-or-None: None and 0 are false
Truthy(o) == o # None /\ o[1] # 0

\* d.get(k): the value, or None when the key is absent
DictGet(d, k) == IF k \in DOMAIN d THEN Some(d[k]) ELSE None

\* d.get(k, default)
DictGetDefault(d, k, default) == IF k \in DOMAIN d THEN d[k] ELSE default

UPPERCASE == <<"A","B","C","D","E","F","G","H","I","J","K","L","M",
               "N","O","P","Q","R","S","T","U","V","W","X","Y","Z">>

LOWERCASE == <<"a","b","c","d","e","f","g","h","i","j","k","l","m",
               "n","o","p","q","r","s","t","u","v","w","x","y","z">>

\* str.lower() on one character
LowerChar(c) ==
    IF \E i \in 1..Len(UPPERCASE) : UPPERCASE[i] = c
    THEN LOWERCASE[CHOOSE i \in 1..Len(UPPERCASE) : UPPERCASE[i] = c]
    ELSE c

\* str.lower()
StrLower(s) == [i \in 1..Len(s) |-> LowerChar(s[i])]

\* str.upper() on one character
UpperChar(c) ==
    IF \E i \in 1..Len(LOWERCASE) : LOWERCASE[i] = c
    THEN UPPERCASE[CHOOSE i \in 1..Len(LOWERCASE) : LOWERCASE[i] = c]
    ELSE c

\* str.upper()
StrUpper(s) == [i \in 1..Len(s) |-> UpperChar(s[i])]

\* Python's `sub in s` on strings (the empty string is in every string)
StrIn(sub, s) ==
    \E i \in 0..(Len(s) - Len(sub)) : SubSeq(s, i + 1, i + Len(sub)) = sub

\* a literal string used as a display name
Lit(text) == [lit |-> text]

\* ------------------------------------------------------------------------
\* Exact fractions for the float arithmetic of the risk model
\* ------------------------------------------------------------------------

Abs(n) == IF n < 0 THEN -n ELSE n

RECURSIVE GCD(_, _)
GCD(a, b) == IF b = 0 THEN a ELSE GCD(b, a % b)

\* n / d in lowest terms, d > 0
Frac(n, d) ==
    LET g == GCD(Abs(n), d)
    IN  IF n = 0 THEN <<0, 1>> ELSE <<n \div g, d \div g>>

FracMul(x, y) == Frac(x[1] * y[1], x[2] * y[2])

FracLeq(x, y) == x[1] * y[2] <= y[1] * x[2]

\* ------------------------------------------------------------------------
\* Ticker symbols and sector names, as character sequences
\* ------------------------------------------------------------------------

K_TSLA == <<"T","S","L","A">>
K_NHY_OL == <<"N","H","Y",".","O","L">>
K_ASML == <<"A","S","M","L">>
K_SHELL == <<"S","H","E","L","L">>
K_EQNR == <<"E","Q","N","R">>
K_NOVN_SW == <<"N","O","V","N",".","S","W">>
K_NESN_SW == <<"N","E","S","N",".","S","W">>

S_Technology == <<"T","e","c","h","n","o","l","o","g","y">>
S_Basic_Materials == <<"B","a","s","i","c"," ","M","a","t","e","r","i","a","l","s">>
S_Consumer_Defensive == <<"C","o","n","s","u","m","e","r"," ","D","e","f","e","n","s","i","v","e">>
S_Healthcare == <<"H","e","a","l","t","h","c","a","r","e">>
S_Energy == <<"E","n","e","r","g","y">>
S_Consumer_Cyclical == <<"C","o","n","s","u","m","e","r"," ","C","y","c","l","i","c","a","l">>
S_Industrial_Unknown == <<"I","n","d","u","s","t","r","i","a","l"," ","(","U","n","k","n","o","w","n",")">>
S_Unknown == <<"U","n","k","n","o","w","n">>
S_Industrials == <<"I","n","d","u","s","t","r","i","a","l","s">>
S_Utilities == <<"U","t","i","l","i","t","i","e","s">>
S_Communication == <<"C","o","m","m","u","n","i","c","a","t","i","o","n">>
S_Financial == <<"F","i","n","a","n","c","i","a","l">>

\* ------------------------------------------------------------------------
\* ASSET_DB: verified coordinates of specific assets (same in both files)
\* ------------------------------------------------------------------------

ASSET_DB ==
    (K_TSLA :> [Factory   |-> [name |-> Lit("Gigafactory Berlin-Brandenburg"), lat |-> 523936, lon |-> 137984],
                Logistics |-> [name |-> Lit("Port of Zeebrugge (Major Import Hub)"), lat |-> 513328, lon |-> 32064]])
 @@ (K_NHY_OL :> [Factory   |-> [name |-> Lit("Sunndal Aluminum Smelter (Largest in Europe)"), lat |-> 626753, lon |-> 85627],
                  Logistics |-> [name |-> Lit("Port of Sunndalsora"), lat |-> 626790, lon |-> 85400]])
 @@ (K_ASML :> [Factory   |-> [name |-> Lit("Veldhoven Fabrication Plant"), lat |-> 514082, lon |-> 54184],
                Logistics |-> [name |-> Lit("Eindhoven Airport Cargo Hub"), lat |-> 514584, lon |-> 53913]])
 @@ (K_SHELL :> [Factory   |-> [name |-> Lit("Pernis Refinery (Largest in Europe)"), lat |-> 518833, lon |-> 43833],
                 Logistics |-> [name |-> Lit("Port of Rotterdam"), lat |-> 519500, lon |-> 41333]])
 @@ (K_EQNR :> [Factory   |-> [name |-> Lit("Mongstad Refinery"), lat |-> 608080, lon |-> 50380],
                Logistics |-> [name |-> Lit("Kollsnes Gas Processing"), lat |-> 605500, lon |-> 48333]])
 @@ (K_NOVN_SW :> [Factory   |-> [name |-> Lit("Stein Sterile Manufacturing Site"), lat |-> 475422, lon |-> 79536],
                   Logistics |-> [name |-> Lit("Basel Campus Supply Hub"), lat |-> 475623, lon |-> 75756]])
 @@ (K_NESN_SW :> [Factory   |-> [name |-> Lit("Nespresso Production Centre (Orbe)"), lat |-> 467237, lon |-> 65362],
                   Logistics |-> [name |-> Lit("Distribution Center Avenches"), lat |-> 468800, lon |-> 70400]])

\* ------------------------------------------------------------------------
\* DEMO_DATA: the curated financial fallbacks, in dict (insertion) order
\* ------------------------------------------------------------------------

\* app.py
DEMO_DATA ==
    << [k |-> K_ASML, v |->
          [longName |-> Lit("ASML Holding N.V."), sector |-> S_Technology, marketCap |-> 380000, currency |-> "EUR",
           city |-> "Veldhoven", country |-> "Netherlands", totalRevenue |-> 21000, beta |-> 13,
           esgScores |-> [totalEsg |-> 140]]],
       [k |-> K_NHY_OL, v |->
          [longName |-> Lit("Norsk Hydro ASA"), sector |-> S_Basic_Materials, marketCap |-> 130000, currency |-> "NOK",
           city |-> "Oslo", country |-> "Norway", totalRevenue |-> 150000, beta |-> 11,
           esgScores |-> [totalEsg |-> 250]]],
       [k |-> K_NESN_SW, v |->
          [longName |-> Lit("Nestle S.A."), sector |-> S_Consumer_Defensive, marketCap |-> 260000, currency |-> "CHF",
           city |-> "Vevey", country |-> "Switzerland", totalRevenue |-> 93000, beta |-> 6,
           esgScores |-> [totalEsg |-> 210]]],
       [k |-> K_NOVN_SW, v |->
          [longName |-> Lit("Novartis AG"), sector |-> S_Healthcare, marketCap |-> 200000, currency |-> "CHF",
           city |-> "Basel", country |-> "Switzerland", totalRevenue |-> 45000, beta |-> 5,
           esgScores |-> [totalEsg |-> 160]]],
       [k |-> K_SHELL, v |->
          [longName |-> Lit("Shell PLC"), sector |-> S_Energy, marketCap |-> 210000, currency |-> "USD",
           city |-> "London", country |-> "UK", totalRevenue |-> 316000, beta |-> 9,
           esgScores |-> [totalEsg |-> 340]]],
       [k |-> K_EQNR, v |->
          [longName |-> Lit("Equinor ASA"), sector |-> S_Energy, marketCap |-> 90000, currency |-> "USD",
           city |-> "Stavanger", country |-> "Norway", totalRevenue |-> 100000, beta |-> 8,
           esgScores |-> [totalEsg |-> 280]]],
       [k |-> K_TSLA, v |->
          [longName |-> Lit("Tesla Inc."), sector |-> S_Consumer_Cyclical, marketCap |-> 700000, currency |-> "USD",
           city |-> "Austin", country |-> "United States", totalRevenue |-> 96000, beta |-> 20,
           esgScores |-> [totalEsg |-> 260]]] >>

\* geo-risk-sentry-poc/app.py
DEMO_DATA_poc ==
    << [k |-> K_EQNR, v |->
          [longName |-> Lit("Equinor ASA"), sector |-> S_Energy, marketCap |-> 75000, currency |-> "USD",
           city |-> "Stavanger", country |-> "Norway", totalRevenue |-> 100000]],
       [k |-> K_NHY_OL, v |->
          [longName |-> Lit("Norsk Hydro ASA"), sector |-> S_Basic_Materials, marketCap |-> 130000, currency |-> "NOK",
           city |-> "Oslo", country |-> "Norway", totalRevenue |-> 150000]],
       [k |-> K_TSLA, v |->
          [longName |-> Lit("Tesla, Inc."), sector |-> S_Consumer_Cyclical, marketCap |-> 750000, currency |-> "USD",
           city |-> "Austin", country |-> "United States", totalRevenue |-> 96000]],
       [k |-> K_ASML, v |->
          [longName |-> Lit("ASML Holding N.V."), sector |-> S_Technology, marketCap |-> 350000, currency |-> "EUR",
           city |-> "Veldhoven", country |-> "Netherlands", totalRevenue |-> 27000]],
       [k |-> K_NESN_SW, v |->
          [longName |-> Lit("Nestle S.A."), sector |-> S_Consumer_Defensive, marketCap |-> 260000, currency |-> "CHF",
           city |-> "Vevey", country |-> "Switzerland", totalRevenue |-> 93000]],
       [k |-> K_NOVN_SW, v |->
          [longName |-> Lit("Novartis AG"), sector |-> S_Healthcare, marketCap |-> 200000, currency |-> "CHF",
           city |-> "Basel", country |-> "Switzerland", totalRevenue |-> 45000]] >>

\* the file that is run: "root" is app.py, "poc" is geo-risk-sentry-poc/app.py
Apps == {"root", "poc"}

DemoTable(a) == IF a = "root" THEN DEMO_DATA ELSE DEMO_DATA_poc

\* `ticker in DEMO_DATA`
InDemoData(a, t) == \E i \in 1..Len(DemoTable(a)) : DemoTable(a)[i].k = t

\* DEMO_DATA[ticker]
DemoEntry(a, t) ==
    DemoTable(a)[CHOOSE i \in 1..Len(DemoTable(a)) : DemoTable(a)[i].k = t].v

\* ------------------------------------------------------------------------
\* What the external services may answer
\* ------------------------------------------------------------------------

\* the tickers typed into the sidebar
K_tsla == <<"t","s","l","a">>
K_NHY == <<"N","H","Y">>
K_XYZ == <<"X","Y","Z">>
K_SW == <<"S","W">>
K_TSLA_MX == <<"T","S","L","A",".","M","X">>

Tickers ==
    {K_TSLA, K_NHY_OL, K_ASML, K_SHELL, K_EQNR, K_NOVN_SW, K_NESN_SW,
     K_tsla, K_NHY, K_XYZ, K_SW, K_TSLA_MX}

AssetTypes ==
    {"Headquarters (Corporate)", "Primary Factory (Manufacturing)",
     "Supply Chain Hub (Logistics)"}

\* yfinance's stock.info for ticker t: an empty dict, the dict of an unknown
\* ticker (neither name nor symbol), a dict with the symbol alone, a listing
\* without sector and address, and two full records
LiveInfos(t) ==
    { <<>>,
      [trailingPegRatio |-> None],
      [symbol |-> t],
      [longName |-> Lit("Live Listing"), symbol |-> t, currency |-> "USD"],
      [longName |-> Lit("Live Energy Co"), symbol |-> t, sector |-> S_Energy,
       marketCap |-> 500000, currency |-> "USD", city |-> "Houston",
       country |-> "United States", totalRevenue |-> 36500],
      [longName |-> Lit("Live Tech Co"), symbol |-> t, sector |-> S_Technology,
       marketCap |-> 900000, currency |-> "USD", city |-> "Quito",
       country |-> "Ecuador"] }

\* the live financial fetch: an exception, info = None, or a dict
LiveOutcomes(t) ==
    {[kind |-> "raise"], [kind |-> "none"]}
    \cup {[kind |-> "info", info |-> r] : r \in LiveInfos(t)}

\* the geocoder: an exception, no match, or a location (Oslo, a place at
\* exactly 59.91 N 10.75 E, a place on the equator, a place on the prime
\* meridian)
GeoOutcomes ==
    {[kind |-> "raise"], [kind |-> "nomatch"],
     [kind |-> "match", latitude |-> 599139, longitude |-> 107522],
     [kind |-> "match", latitude |-> 599100, longitude |-> 107500],
     [kind |-> "match", latitude |-> 0, longitude |-> -784700],
     [kind |-> "match", latitude |-> -338700, longitude |-> 0]}

\* the JSON bodies of the weather provider: an error object, a missing field,
\* empty lists, and lists whose first element is a number or null
WeatherBodies ==
    { [error |-> TRUE],
      [daily |-> [windspeed_10m_max |-> <<Some(120)>>]],
      [daily |-> [precipitation_sum |-> <<Some(600)>>]],
      [daily |-> [precipitation_sum |-> <<>>, windspeed_10m_max |-> <<>>]] }
    \cup { [daily |-> [precipitation_sum |-> <<r>>, windspeed_10m_max |-> <<w>>]] :
             r \in {None, Some(0), Some(120), Some(600)}, w \in {None, Some(120), Some(900)} }

\* the weather request: a transport error or timeout, a body that is not
\* JSON, or a JSON body
WeatherResponses ==
    {[kind |-> "transport_error"], [kind |-> "bad_json"]}
    \cup {[kind |-> "json", body |-> b] : b \in WeatherBodies}

\* stock.sustainability: an exception, None, an empty frame, a frame without
\* the totalEsg row, or a frame with a score
SustainabilityOutcomes ==
    {[kind |-> "raise"], [kind |-> "none"], [kind |-> "empty"], [kind |-> "no_row"]}
    \cup {[kind |-> "frame", totalEsg |-> s] : s \in {0, 95, 100, 255, 300, 400}}

\* ------------------------------------------------------------------------
\* Helper functions
\* ------------------------------------------------------------------------

\* get_coordinates(city, country): (lat, lon) of the geocoder's answer
get_coordinates(geo) ==
    IF geo.kind = "match"
    THEN <<Some(geo.latitude), Some(geo.longitude)>>
    ELSE <<None, None>>

\* get_live_weather_risk(lat, lon): (rain_today, wind_today); any exception
\* (request, JSON decoding, KeyError, IndexError) gives (0, 0)
get_live_weather_risk(resp) ==
    IF resp.kind # "json" THEN <<Some(0), Some(0)>>
    ELSE IF "daily" \notin DOMAIN resp.body THEN <<Some(0), Some(0)>>
    ELSE IF "precipitation_sum" \notin DOMAIN resp.body.daily THEN <<Some(0), Some(0)>>
    ELSE IF Len(resp.body.daily.precipitation_sum) = 0 THEN <<Some(0), Some(0)>>
    ELSE IF "windspeed_10m_max" \notin DOMAIN resp.body.daily THEN <<Some(0), Some(0)>>
    ELSE IF Len(resp.body.daily.windspeed_10m_max) = 0 THEN <<Some(0), Some(0)>>
    ELSE <<resp.body.daily.precipitation_sum[1], resp.body.daily.windspeed_10m_max[1]>>

\* fetch_live_data(ticker) of app.py: the info dict, or None
fetch_live_data(live) ==
    IF live.kind # "info" THEN None
    ELSE IF "longName" \notin DOMAIN live.info /\ "symbol" \notin DOMAIN live.info THEN None
    ELSE Some(live.info)

\* yf.Ticker(ticker)
Ticker(t) == [ticker |-> t]

\* the fuzzy match of app.py: position of the first key k with
\* ticker.lower() in k.lower() or k.lower() in ticker.lower(); 0 if none
FuzzyMatch(t) ==
    LET hits == {i \in 1..Len(DEMO_DATA) :
                    \/ StrIn(StrLower(t), StrLower(DEMO_DATA[i].k))
                    \/ StrIn(StrLower(DEMO_DATA[i].k), StrLower(t))}
    IN  IF hits = {} THEN 0 ELSE CHOOSE i \in hits : \A j \in hits : i <= j

\* the fuzzy match of geo-risk-sentry-poc/app.py: first key with ticker in key
FuzzyMatch_poc(t) ==
    LET hits == {i \in 1..Len(DEMO_DATA_poc) : StrIn(t, DEMO_DATA_poc[i].k)}
    IN  IF hits = {} THEN 0 ELSE CHOOSE i \in hits : \A j \in hits : i <= j

\* generic_data of app.py
generic_data(t) ==
    [longName |-> [fmt |-> "{ticker} (Simulated)", ticker |-> t],
     sector |-> S_Industrial_Unknown, marketCap |-> 10000, currency |-> "USD",
     city |-> "Unknown", country |-> "Unknown", totalRevenue |-> 5000, beta |-> 10,
     esgScores |-> [totalEsg |-> 250]]

\* the "total failure" record of geo-risk-sentry-poc/app.py
generic_data_poc(t) ==
    [longName |-> [fmt |-> "{ticker}", ticker |-> t],
     sector |-> S_Unknown, marketCap |-> 0, currency |-> "N/A",
     city |-> "Unknown", country |-> "Unknown", totalRevenue |-> 0]

\* get_stock_data_safe with the curated table left out of the fallback chain
get_stock_data_safe_no_demo_db(t, live) ==
    LET fetched == fetch_live_data(live)
    IN  IF fetched # None /\ fetched[1] # <<>>
        THEN [stock |-> Some(Ticker(t)), info |-> fetched[1], is_demo_mode |-> FALSE]
        ELSE [stock |-> None, info |-> generic_data(t), is_demo_mode |-> TRUE]

\* get_stock_data_safe(ticker) of app.py: (stock, info, is_demo_mode)
get_stock_data_safe_root(t, live) ==
    LET fetched == fetch_live_data(live)
    IN  IF fetched # None /\ fetched[1] # <<>>
        THEN [stock |-> Some(Ticker(t)), info |-> fetched[1], is_demo_mode |-> FALSE]
        ELSE IF InDemoData("root", t)
        THEN [stock |-> None, info |-> DemoEntry("root", t), is_demo_mode |-> TRUE]
        ELSE IF FuzzyMatch(t) # 0
        THEN [stock |-> None, info |-> DEMO_DATA[FuzzyMatch(t)].v, is_demo_mode |-> TRUE]
        ELSE [stock |-> None, info |-> generic_data(t), is_demo_mode |-> TRUE]

\* get_stock_data_safe(ticker) of geo-risk-sentry-poc/app.py
get_stock_data_safe_poc(t, live) ==
    IF live.kind = "info" /\ "longName" \in DOMAIN live.info
    THEN [stock |-> Some(Ticker(t)), info |-> live.info, is_demo_mode |-> FALSE]
    ELSE IF InDemoData("poc", t)
    THEN [stock |-> None, info |-> DemoEntry("poc", t), is_demo_mode |-> TRUE]
    ELSE IF FuzzyMatch_poc(t) # 0
    THEN [stock |-> None, info |-> DEMO_DATA_poc[FuzzyMatch_poc(t)].v, is_demo_mode |-> TRUE]
    ELSE [stock |-> None, info |-> generic_data_poc(t), is_demo_mode |-> TRUE]

get_stock_data_safe(a, t, live) ==
    IF a = "root" THEN get_stock_data_safe_root(t, live)
    ELSE get_stock_data_safe_poc(t, live)

\* the label of a total ESG score (tenths); the labels of the two files
esg_label_of(a, total_score) ==
    IF total_score < 100 THEN (IF a = "root" THEN "Negligible" ELSE "Negligible Risk (Top)")
    ELSE IF total_score < 200 THEN (IF a = "root" THEN "Low Risk" ELSE "Low Risk (Good)")
    ELSE IF total_score < 300 THEN "Medium Risk"
    ELSE IF total_score < 400 THEN "High Risk"
    ELSE "Severe Risk"

\* get_real_esg_score(stock_object): (score, label) or (None, None); a None
\* stock_object raises AttributeError, which is caught like every exception
get_real_esg_score(a, stock_object, sus) ==
    IF stock_object = None THEN <<None, None>>
    ELSE IF sus.kind = "frame"
    THEN <<Some(sus.totalEsg), Some(esg_label_of(a, sus.totalEsg))>>
    ELSE <<None, None>>

\* the vulnerability rules in the other order: the 0.3 keywords first
Vulnerability_low_first(sector) ==
    IF \E x \in {S_Technology, S_Communication, S_Financial} : StrIn(x, sector)
    THEN Frac(3, 10)
    ELSE IF \E x \in {S_Energy, S_Basic_Materials, S_Industrials, S_Utilities} : StrIn(x, sector)
    THEN Frac(1, 1)
    ELSE Frac(1, 2)

\* the sector vulnerability factor
Vulnerability(sector) ==
    IF \E x \in {S_Energy, S_Basic_Materials, S_Industrials, S_Utilities} : StrIn(x, sector)
    THEN Frac(1, 1)
    ELSE IF \E x \in {S_Technology, S_Communication, S_Financial} : StrIn(x, sector)
    THEN Frac(3, 10)
    ELSE Frac(1, 2)

\* the weather thresholds with exclusive lower bounds
Disruption_exclusive(rain_mm) ==
    IF rain_mm > 500 THEN Frac(50, 100)
    ELSE IF rain_mm > 200 THEN Frac(15, 100)
    ELSE IF rain_mm > 50 THEN Frac(2, 100)
    ELSE Frac(0, 100)

\* the weather severity factor of rain_mm (tenths of a millimetre)
Disruption(rain_mm) ==
    IF rain_mm >= 500 THEN Frac(50, 100)
    ELSE IF rain_mm >= 200 THEN Frac(15, 100)
    ELSE IF rain_mm >= 50 THEN Frac(2, 100)
    ELSE Frac(0, 100)

NoEstimate ==
    [raised |-> FALSE, daily_revenue |-> None, estimated_loss |-> None, disruption_pct |-> None]

\* calculate_revenue_at_risk with `if not revenue`: a revenue of 0 taken as absent
calculate_revenue_at_risk_falsy(inf, rain_mm) ==
    LET revenue == DictGet(inf, "totalRevenue")
        daily_revenue == Frac(revenue[1], 365)
        vulnerability == Vulnerability(DictGetDefault(inf, "sector", S_Unknown))
        disruption_pct == Disruption(rain_mm[1])
        estimated_loss == FracMul(FracMul(daily_revenue, vulnerability), disruption_pct)
    IN  IF ~Truthy(revenue) THEN NoEstimate
        ELSE IF rain_mm = None THEN [NoEstimate EXCEPT !.raised = TRUE]
        ELSE [raised |-> FALSE, daily_revenue |-> Some(daily_revenue),
              estimated_loss |-> Some(estimated_loss),
              disruption_pct |-> Some(disruption_pct)]

\* calculate_revenue_at_risk with the loss taken on the full daily revenue,
\* the sector vulnerability left out
calculate_revenue_at_risk_no_sector(inf, rain_mm) ==
    LET revenue == DictGet(inf, "totalRevenue")
        daily_revenue == Frac(revenue[1], 365)
        disruption_pct == Disruption(rain_mm[1])
        estimated_loss == FracMul(daily_revenue, disruption_pct)
    IN  IF revenue = None THEN NoEstimate
        ELSE IF rain_mm = None THEN [NoEstimate EXCEPT !.raised = TRUE]
        ELSE [raised |-> FALSE, daily_revenue |-> Some(daily_revenue),
              estimated_loss |-> Some(estimated_loss),
              disruption_pct |-> Some(disruption_pct)]

\* calculate_revenue_at_risk(info, rain_mm): (daily_revenue, estimated_loss,
\* disruption_pct); raised: the comparison of a None rain_mm with a number
\* raises TypeError
calculate_revenue_at_risk(inf, rain_mm) ==
    LET revenue == DictGet(inf, "totalRevenue")
        daily_revenue == Frac(revenue[1], 365)
        sector == DictGetDefault(inf, "sector", S_Unknown)
        vulnerability == Vulnerability(sector)
        disruption_pct == Disruption(rain_mm[1])
        estimated_loss == FracMul(FracMul(daily_revenue, vulnerability), disruption_pct)
    IN  IF revenue = None THEN NoEstimate
        ELSE IF rain_mm = None THEN [NoEstimate EXCEPT !.raised = TRUE]
        ELSE [raised |-> FALSE, daily_revenue |-> Some(daily_revenue),
              estimated_loss |-> Some(estimated_loss),
              disruption_pct |-> Some(disruption_pct)]

\* ------------------------------------------------------------------------
\* The script, one run from the sidebar input to the parametric model
\* ------------------------------------------------------------------------

VARIABLES
    app,             \* which file is run: "root" or "poc"
    pc,              \* position in the script
    ticker,          \* st.text_input
    asset_type,      \* st.selectbox
    stock, info, is_demo_mode,
    lat, lon, location_name, asset_label, is_exact_match,
    rain, wind,
    raw_esg, esg_label,
    estimate,        \* daily_rev, est_loss, disrupt_pct
    exception,       \* the exception that left the pipeline, "" if none
    live, geo, resp, sus,   \* what each external service answered in this run
    weather_calls,   \* the (lat, lon) pairs get_live_weather_risk was called with
    weather_cache,   \* the entries st.cache_data keeps for get_live_weather_risk
    now,             \* the clock of the server process, in seconds
    provider_requests  \* the requests sent to the weather provider, with their results

vars ==
    <<app, pc, ticker, asset_type, stock, info, is_demo_mode, lat, lon,
      location_name, asset_label, is_exact_match, rain, wind, raw_esg, esg_label,
      estimate, exception, live, geo, resp, sus, weather_calls,
      weather_cache, now, provider_requests>>

NotAsked == [kind |-> "not asked"]

\* the names of a run before the script binds them
Unbound ==
    /\ stock = None /\ info = <<>> /\ is_demo_mode = FALSE
    /\ lat = None /\ lon = None /\ location_name = Lit("")
    /\ asset_label = "" /\ is_exact_match = FALSE
    /\ rain = None /\ wind = None /\ raw_esg = None /\ esg_label = None
    /\ estimate = NoEstimate /\ exception = ""
    /\ live = NotAsked /\ geo = NotAsked /\ resp = NotAsked /\ sus = NotAsked
    /\ weather_calls = <<>>
    /\ weather_cache = {} /\ now = 0 /\ provider_requests = <<>>

Init ==
    /\ app \in Apps
    /\ pc = "sidebar"
    /\ ticker = <<>>
    /\ asset_type = "Headquarters (Corporate)"
    /\ Unbound

\* the sidebar widgets: a ticker and an asset layer; an empty ticker ends the
\* run with "Please enter a ticker"
Sidebar ==
    /\ pc = "sidebar"
    /\ \E t \in Tickers \cup {<<>>}, a \in AssetTypes :
          /\ ticker' = t
          /\ asset_type' = a
          /\ pc' = IF t # <<>> THEN "financials" ELSE "no_ticker"
    /\ UNCHANGED <<app, stock, info, is_demo_mode, lat, lon, location_name,
                   asset_label, is_exact_match, rain, wind, raw_esg, esg_label,
                   estimate, exception, live, geo, resp, sus, weather_calls,
                   weather_cache, now, provider_requests>>

\* A. FETCH FINANCIALS
FetchFinancials ==
    /\ pc = "financials"
    /\ \E l \in LiveOutcomes(ticker) :
          /\ live' = l
          /\ stock' = get_stock_data_safe(app, ticker, l).stock
          /\ info' = get_stock_data_safe(app, ticker, l).info
          /\ is_demo_mode' = get_stock_data_safe(app, ticker, l).is_demo_mode
    /\ pc' = "geolocation"
    /\ UNCHANGED <<app, ticker, asset_type, lat, lon, location_name, asset_label,
                   is_exact_match, rain, wind, raw_esg, esg_label, estimate,
                   exception, geo, resp, sus, weather_calls,
                   weather_cache, now, provider_requests>>

\* B. GEOLOCATION LOGIC, default: the headquarters, geocoded
Geolocation ==
    /\ pc = "geolocation"
    /\ \E g \in GeoOutcomes :
          /\ geo' = g
          /\ lat' = get_coordinates(g)[1]
          /\ lon' = get_coordinates(g)[2]
    /\ location_name' = [fmt |-> "{city} (HQ)", city |-> DictGetDefault(info, "city", "Unknown")]
    /\ asset_label' = "corporate headquarters"
    /\ is_exact_match' = FALSE
    /\ pc' = "override"
    /\ UNCHANGED <<app, ticker, asset_type, stock, info, is_demo_mode, rain, wind,
                   raw_esg, esg_label, estimate, exception, live, resp, sus,
                   weather_calls,
                   weather_cache, now, provider_requests>>

\* the label of the logistics layer in the two files
LogisticsLabel(a) ==
    IF a = "root" THEN "logistics hub" ELSE "logistics and supply chain hub"

\* the override applied only where geocoding found nothing
asset_override_if_no_geocode(a, t, atype, loc) ==
    IF loc.lat # None THEN loc
    ELSE IF t \in DOMAIN ASSET_DB /\ atype = "Primary Factory (Manufacturing)"
    THEN [lat |-> Some(ASSET_DB[t].Factory.lat),
          lon |-> Some(ASSET_DB[t].Factory.lon),
          location_name |-> ASSET_DB[t].Factory.name,
          asset_label |-> "primary manufacturing facility",
          is_exact_match |-> TRUE]
    ELSE IF t \in DOMAIN ASSET_DB /\ atype = "Supply Chain Hub (Logistics)"
    THEN [lat |-> Some(ASSET_DB[t].Logistics.lat),
          lon |-> Some(ASSET_DB[t].Logistics.lon),
          location_name |-> ASSET_DB[t].Logistics.name,
          asset_label |-> LogisticsLabel(a),
          is_exact_match |-> TRUE]
    ELSE loc

\* the override with the label taken from the layer for every ticker
asset_override_label_by_layer(a, t, atype, loc) ==
    IF atype = "Primary Factory (Manufacturing)"
    THEN IF t \in DOMAIN ASSET_DB
         THEN [lat |-> Some(ASSET_DB[t].Factory.lat),
               lon |-> Some(ASSET_DB[t].Factory.lon),
               location_name |-> ASSET_DB[t].Factory.name,
               asset_label |-> "primary manufacturing facility",
               is_exact_match |-> TRUE]
         ELSE [loc EXCEPT !.asset_label = "primary manufacturing facility"]
    ELSE IF atype = "Supply Chain Hub (Logistics)"
    THEN IF t \in DOMAIN ASSET_DB
         THEN [lat |-> Some(ASSET_DB[t].Logistics.lat),
               lon |-> Some(ASSET_DB[t].Logistics.lon),
               location_name |-> ASSET_DB[t].Logistics.name,
               asset_label |-> LogisticsLabel(a),
               is_exact_match |-> TRUE]
         ELSE [loc EXCEPT !.asset_label = LogisticsLabel(a)]
    ELSE loc

\* Check Tier 1 DB Override: the location after the override, given the
\* location loc that geocoding left
asset_override(a, t, atype, loc) ==
    IF t \in DOMAIN ASSET_DB /\ atype = "Primary Factory (Manufacturing)"
    THEN [lat |-> Some(ASSET_DB[t].Factory.lat),
          lon |-> Some(ASSET_DB[t].Factory.lon),
          location_name |-> ASSET_DB[t].Factory.name,
          asset_label |-> "primary manufacturing facility",
          is_exact_match |-> TRUE]
    ELSE IF t \in DOMAIN ASSET_DB /\ atype = "Supply Chain Hub (Logistics)"
    THEN [lat |-> Some(ASSET_DB[t].Logistics.lat),
          lon |-> Some(ASSET_DB[t].Logistics.lon),
          location_name |-> ASSET_DB[t].Logistics.name,
          asset_label |-> LogisticsLabel(a),
          is_exact_match |-> TRUE]
    ELSE loc

AssetOverride ==
    /\ pc = "override"
    /\ LET loc == [lat |-> lat, lon |-> lon, location_name |-> location_name,
                   asset_label |-> asset_label, is_exact_match |-> is_exact_match]
           new == asset_override(app, ticker, asset_type, loc)
       IN  /\ lat' = new.lat
           /\ lon' = new.lon
           /\ location_name' = new.location_name
           /\ asset_label' = new.asset_label
           /\ is_exact_match' = new.is_exact_match
    /\ pc' = "weather"
    /\ UNCHANGED <<app, ticker, asset_type, stock, info, is_demo_mode, rain, wind,
                   raw_esg, esg_label, estimate, exception, live, geo, resp, sus,
                   weather_calls,
                   weather_cache, now, provider_requests>>

\* @st.cache_data(ttl=600) on get_live_weather_risk in app.py, in seconds
CACHE_TTL == 600

\* st.cache_data: the entries that answer a call with (la, lo) at time t,
\* those stored for the same arguments less than ttl seconds ago. The
\* function of geo-risk-sentry-poc/app.py has no decorator
weather_cache_hit(a, cache, t, la, lo) ==
    IF a = "root"
    THEN {e \in cache : e.lat = la /\ e.lon = lo /\ t < e.stored + CACHE_TTL}
    ELSE {}

\* st.cache_data: the cache after the function ran for (la, lo) at time t
\* and returned value
weather_cache_store(a, cache, t, la, lo, value) ==
    IF a = "root"
    THEN {e \in cache : ~(e.lat = la /\ e.lon = lo)}
         \cup {[lat |-> la, lon |-> lo, value |-> value, stored |-> t]}
    ELSE cache

\* one call get_live_weather_risk(la, lo): answered from the cache, or the
\* function runs, asks the provider (which answers with one of answers) and
\* its return value is stored
CallWeather(la, lo, answers) ==
    /\ weather_calls' = Append(weather_calls, <<la, lo>>)
    /\ IF weather_cache_hit(app, weather_cache, now, la, lo) # {}
       THEN LET e == CHOOSE e \in weather_cache_hit(app, weather_cache, now, la, lo) : TRUE
            IN  /\ rain' = e.value[1]
                /\ wind' = e.value[2]
                /\ resp' = NotAsked
                /\ UNCHANGED <<weather_cache, provider_requests>>
       ELSE \E r \in answers :
                /\ resp' = r
                /\ rain' = get_live_weather_risk(r)[1]
                /\ wind' = get_live_weather_risk(r)[2]
                /\ provider_requests' =
                      Append(provider_requests,
                             [lat |-> la, lon |-> lo, at |-> now,
                              value |-> get_live_weather_risk(r)])
                /\ weather_cache' =
                      weather_cache_store(app, weather_cache, now, la, lo,
                                          get_live_weather_risk(r))

\* C. REAL-TIME RISK DATA
WeatherFetch ==
    /\ pc = "weather"
    /\ Truthy(lat)
    /\ CallWeather(lat, lon, WeatherResponses)
    /\ pc' = "esg"
    /\ UNCHANGED <<app, ticker, asset_type, stock, info, is_demo_mode, lat, lon,
                   location_name, asset_label, is_exact_match, raw_esg, esg_label,
                   estimate, exception, live, geo, sus, now>>

\* the else branch without the default coordinates
weather_else_no_default(la, lo) ==
    [rain |-> Some(0), wind |-> Some(0), lat |-> la, lon |-> lo]

\* the else branch: no weather request, zero rain and wind, and the default
\* coordinates in place of (la, lo)
weather_else(la, lo) ==
    [rain |-> Some(0), wind |-> Some(0), lat |-> Some(599100), lon |-> Some(107500)]

WeatherDefault ==
    /\ pc = "weather"
    /\ ~Truthy(lat)
    /\ rain' = weather_else(lat, lon).rain
    /\ wind' = weather_else(lat, lon).wind
    /\ lat' = weather_else(lat, lon).lat
    /\ lon' = weather_else(lat, lon).lon
    /\ pc' = "esg"
    /\ UNCHANGED <<app, ticker, asset_type, stock, info, is_demo_mode,
                   location_name, asset_label, is_exact_match, raw_esg, esg_label,
                   estimate, exception, live, geo, resp, sus, weather_calls,
                   weather_cache, now, provider_requests>>

\* the fallback ESG of app.py: the score embedded in the profile
EmbeddedEsg(inf) ==
    IF "esgScores" \in DOMAIN inf THEN DictGet(inf.esgScores, "totalEsg") ELSE None

\* ESG Logic with a live handle: get_real_esg_score(stock). app.py takes this
\* branch when not is_demo_mode and stock; the poc file always calls it
EsgLive ==
    /\ pc = "esg"
    /\ app = "root" => (~is_demo_mode /\ stock # None)
    /\ \E s \in (IF stock = None THEN {NotAsked} ELSE SustainabilityOutcomes) :
          /\ sus' = s
          /\ raw_esg' = get_real_esg_score(app, stock, s)[1]
          /\ esg_label' = get_real_esg_score(app, stock, s)[2]
    /\ pc' = "risk_model"
    /\ UNCHANGED <<app, ticker, asset_type, stock, info, is_demo_mode, lat, lon,
                   location_name, asset_label, is_exact_match, rain, wind,
                   estimate, exception, live, geo, resp, weather_calls,
                   weather_cache, now, provider_requests>>

\* ESG Logic of app.py without a live handle
EsgFallback ==
    /\ pc = "esg"
    /\ app = "root"
    /\ ~(~is_demo_mode /\ stock # None)
    /\ raw_esg' = EmbeddedEsg(info)
    /\ esg_label' = IF Truthy(EmbeddedEsg(info)) THEN Some("Est. (Medium Risk)") ELSE Some("N/A")
    /\ pc' = "risk_model"
    /\ UNCHANGED <<app, ticker, asset_type, stock, info, is_demo_mode, lat, lon,
                   location_name, asset_label, is_exact_match, rain, wind,
                   estimate, exception, live, geo, resp, sus, weather_calls,
                   weather_cache, now, provider_requests>>

\* 3. PARAMETRIC MODEL: calculate_revenue_at_risk(info, rain). A TypeError
\* leaves the script of app.py; the poc file catches it and shows st.error
RevenueModel ==
    /\ pc = "risk_model"
    /\ estimate' = calculate_revenue_at_risk(info, rain)
    /\ exception' = IF calculate_revenue_at_risk(info, rain).raised THEN "TypeError" ELSE ""
    /\ pc' = IF ~calculate_revenue_at_risk(info, rain).raised THEN "done"
             ELSE IF app = "root" THEN "crashed" ELSE "error_shown"
    /\ UNCHANGED <<app, ticker, asset_type, stock, info, is_demo_mode, lat, lon,
                   location_name, asset_label, is_exact_match, rain, wind,
                   raw_esg, esg_label, live, geo, resp, sus, weather_calls,
                   weather_cache, now, provider_requests>>

Next ==
    \/ Sidebar
    \/ FetchFinancials
    \/ Geolocation
    \/ AssetOverride
    \/ WeatherFetch
    \/ WeatherDefault
    \/ EsgLive
    \/ EsgFallback
    \/ RevenueModel

Spec == Init /\ [][Next]_vars

\* ------------------------------------------------------------------------
\* calculate_revenue_at_risk on its own: every profile below with every rain
\* amount from -1.0 mm to MaxRainTenths / 10 mm, in steps of 0.1 mm
\* ------------------------------------------------------------------------

MaxRainTenths == 600

RainInputs == (-10)..MaxRainTenths

S_Materials == <<"M","a","t","e","r","i","a","l","s">>
S_Financial_Services == <<"F","i","n","a","n","c","i","a","l"," ","S","e","r","v","i","c","e","s">>
S_Communication_Services == <<"C","o","m","m","u","n","i","c","a","t","i","o","n"," ","S","e","r","v","i","c","e","s">>
S_Energy_Technology == <<"E","n","e","r","g","y"," ","T","e","c","h","n","o","l","o","g","y">>
S_energy == <<"e","n","e","r","g","y">>
S_Real_Estate == <<"R","e","a","l"," ","E","s","t","a","t","e">>

SectorInputs ==
    {S_Energy, S_Basic_Materials, S_Industrials, S_Utilities, S_Technology,
     S_Financial_Services, S_Communication_Services, S_Healthcare,
     S_Industrial_Unknown, S_Materials, S_Energy_Technology, S_energy, S_Real_Estate}

\* totalRevenue in millions: 0, ASML's, the 36,500,000,000 of the scenarios,
\* and a negative figure
RevenueInputs == {0, 21000, 36500, -365}

\* profiles with and without a sector and a totalRevenue
EstimateProfiles ==
    {[sector |-> s, totalRevenue |-> r] : s \in SectorInputs, r \in RevenueInputs}
    \cup {[sector |-> s] : s \in SectorInputs}
    \cup {[totalRevenue |-> r] : r \in RevenueInputs}
    \cup {<<>>}

InitEstimate ==
    /\ app \in Apps
    /\ pc = "risk_model"
    /\ ticker = K_XYZ
    /\ asset_type = "Headquarters (Corporate)"
    /\ info \in EstimateProfiles
    /\ rain \in {Some(r) : r \in RainInputs}
    /\ stock = None /\ is_demo_mode = FALSE
    /\ lat = None /\ lon = None /\ location_name = Lit("")
    /\ asset_label = "" /\ is_exact_match = FALSE
    /\ wind = None /\ raw_esg = None /\ esg_label = None
    /\ estimate = NoEstimate /\ exception = ""
    /\ live = NotAsked /\ geo = NotAsked /\ resp = NotAsked /\ sus = NotAsked
    /\ weather_calls = <<>>
    /\ weather_cache = {} /\ now = 0 /\ provider_requests = <<>>

NextEstimate == RevenueModel

SpecEstimate == InitEstimate /\ [][NextEstimate]_vars

\* ------------------------------------------------------------------------
\* get_live_weather_risk over the life of one server process: the weather
\* step of up to MaxCalls runs of the script, with the clock advancing in
\* between
\* ------------------------------------------------------------------------

MaxCalls == 3
TickSeconds == 250
MaxClock == 1000

\* the locations the runs resolve: Oslo, a second place on the same
\* latitude, and the Tesla factory of ASSET_DB
SessionPairs ==
    {<<Some(599139), Some(107522)>>, <<Some(599139), Some(53221)>>,
     <<Some(ASSET_DB[K_TSLA].Factory.lat), Some(ASSET_DB[K_TSLA].Factory.lon)>>}

\* what the provider answers in these runs
SessionAnswers ==
    {[kind |-> "transport_error"],
     [kind |-> "json", body |-> [daily |-> [precipitation_sum |-> <<Some(120)>>,
                                            windspeed_10m_max |-> <<Some(120)>>]]],
     [kind |-> "json", body |-> [daily |-> [precipitation_sum |-> <<Some(600)>>,
                                            windspeed_10m_max |-> <<Some(900)>>]]]}

InitSession ==
    /\ app \in Apps
    /\ pc = "weather"
    /\ ticker = K_XYZ
    /\ asset_type = "Headquarters (Corporate)"
    /\ info = <<>>
    /\ stock = None /\ is_demo_mode = FALSE
    /\ lat = None /\ lon = None /\ location_name = Lit("")
    /\ asset_label = "" /\ is_exact_match = FALSE
    /\ rain = None /\ wind = None /\ raw_esg = None /\ esg_label = None
    /\ estimate = NoEstimate /\ exception = ""
    /\ live = NotAsked /\ geo = NotAsked /\ resp = NotAsked /\ sus = NotAsked
    /\ weather_calls = <<>>
    /\ weather_cache = {} /\ now = 0 /\ provider_requests = <<>>

\* a run of the script reaches `rain, wind = get_live_weather_risk(lat, lon)`
\* with a resolved location
SessionCall ==
    /\ pc = "weather"
    /\ Len(weather_calls) < MaxCalls
    /\ \E p \in SessionPairs :
          /\ lat' = p[1]
          /\ lon' = p[2]
          /\ CallWeather(p[1], p[2], SessionAnswers)
    /\ UNCHANGED <<app, pc, ticker, asset_type, stock, info, is_demo_mode,
                   location_name, asset_label, is_exact_match, raw_esg, esg_label,
                   estimate, exception, live, geo, sus, now>>

\* time passes between two runs
Tick ==
    /\ pc = "weather"
    /\ now + TickSeconds <= MaxClock
    /\ now' = now + TickSeconds
    /\ UNCHANGED <<app, pc, ticker, asset_type, stock, info, is_demo_mode, lat, lon,
                   location_name, asset_label, is_exact_match, rain, wind, raw_esg,
                   esg_label, estimate, exception, live, geo, resp, sus,
                   weather_calls, weather_cache, provider_requests>>

NextSession ==
    \/ SessionCall
    \/ Tick

SpecSession == InitSession /\ [][NextSession]_vars

\* ------------------------------------------------------------------------
\* Properties
\* ------------------------------------------------------------------------

\* the script is past get_stock_data_safe
ProfileResolved == pc \notin {"sidebar", "no_ticker", "financials"}

\* the script is past the Tier 1 override
LocationChosen == pc \notin {"sidebar", "no_ticker", "financials", "geolocation", "override"}

\* the script is past the weather step (and its default coordinates)
WeatherDone == pc \in {"esg", "risk_model", "done", "crashed", "error_shown"}

\* the script is past the ESG logic
EsgDone == pc \in {"risk_model", "done", "crashed", "error_shown"}

\* the live financial fetch of this run failed: an exception, no info, or an
\* info without the fields the file's validation asks for
LiveFetchFailed ==
    \/ live.kind \in {"raise", "none"}
    \/ /\ live.kind = "info"
       /\ IF app = "root"
          THEN {"longName", "symbol"} \cap DOMAIN live.info = {}
          ELSE "longName" \notin DOMAIN live.info

\* C1: whatever the live fetch answered, the profile get_stock_data_safe
\* returned has a sector, a currency, a city and a country.
C1_ProfileFullyPopulated ==
    ProfileResolved => {"sector", "currency", "city", "country"} \subseteq DOMAIN info

\* C2: when the live fetch fails and the ticker is an exact key of DEMO_DATA,
\* the profile is that key's own entry (no live handle, demo mode), not a
\* fuzzy match's entry and not the synthetic default.
C2_ExactCuratedWins ==
    (ProfileResolved /\ LiveFetchFailed /\ InDemoData(app, ticker))
        => /\ info = DemoEntry(app, ticker)
           /\ is_demo_mode
           /\ stock = None

C2_Witness ==
    /\ pc = "geolocation"
    /\ live.kind = "raise"
    /\ ticker = K_NHY_OL
    /\ info.city = "Oslo"

\* C3: for the factory or logistics layer of a ticker in ASSET_DB the location
\* is the curated record (coordinates, name) with is_exact_match = TRUE,
\* whatever the geocoder answered; for the headquarters layer is_exact_match
\* is FALSE, the name is the "{city} (HQ)" one and the coordinates that leave
\* the override are the geocoder's.
C3_CuratedPrecedence ==
    LocationChosen =>
        /\ (ticker \in DOMAIN ASSET_DB /\ asset_type = "Primary Factory (Manufacturing)")
              => /\ is_exact_match
                 /\ lat = Some(ASSET_DB[ticker].Factory.lat)
                 /\ lon = Some(ASSET_DB[ticker].Factory.lon)
                 /\ location_name = ASSET_DB[ticker].Factory.name
        /\ (ticker \in DOMAIN ASSET_DB /\ asset_type = "Supply Chain Hub (Logistics)")
              => /\ is_exact_match
                 /\ lat = Some(ASSET_DB[ticker].Logistics.lat)
                 /\ lon = Some(ASSET_DB[ticker].Logistics.lon)
                 /\ location_name = ASSET_DB[ticker].Logistics.name
        /\ asset_type = "Headquarters (Corporate)"
              => /\ ~is_exact_match
                 /\ location_name = [fmt |-> "{city} (HQ)",
                                     city |-> DictGetDefault(info, "city", "Unknown")]
                 /\ pc = "weather" => /\ lat = get_coordinates(geo)[1]
                                      /\ lon = get_coordinates(geo)[2]

C3_Witness ==
    /\ pc = "done"
    /\ ticker = K_TSLA
    /\ asset_type = "Primary Factory (Manufacturing)"
    /\ geo.kind = "match"
    /\ is_exact_match
    /\ lat = Some(523936)

\* C4: once the weather step is over latitude and longitude are both present,
\* and get_live_weather_risk was never called with an absent latitude or
\* longitude.
C4_CoordinatesPresent ==
    /\ WeatherDone => (lat # None /\ lon # None)
    /\ \A i \in 1..Len(weather_calls) :
          weather_calls[i][1] # None /\ weather_calls[i][2] # None

C4_Witness ==
    /\ pc = "esg"
    /\ geo.kind \in {"raise", "nomatch"}
    /\ DictGetDefault(info, "city", "Unknown") = "Unknown"
    /\ weather_calls = <<>>
    /\ lat = Some(599100)
    /\ lon = Some(107500)

\* calculate_revenue_at_risk has returned or raised
Estimated == pc \in {"done", "crashed", "error_shown"}

\* C5: the result is the absent one (None, None, None) exactly when the
\* profile has no totalRevenue, for every rain amount; a totalRevenue that is
\* present, 0 included, gives three numbers.
C5_AbsentIffNoRevenue ==
    Estimated =>
        /\ estimate = NoEstimate <=> "totalRevenue" \notin DOMAIN info
        /\ "totalRevenue" \in DOMAIN info
              => /\ ~estimate.raised
                 /\ estimate.daily_revenue # None
                 /\ estimate.estimated_loss # None
                 /\ estimate.disruption_pct # None

C5_Witness ==
    /\ pc = "done"
    /\ "totalRevenue" \in DOMAIN info
    /\ info.totalRevenue = 0
    /\ rain = Some(600)
    /\ estimate.daily_revenue = Some(<<0, 1>>)
    /\ estimate.estimated_loss = Some(<<0, 1>>)

\* the vulnerability of a sector by first match: 1.0 for a keyword of `high`,
\* else 0.3 for Technology, Communication or Financial, else 0.5
FirstMatchFactor(high, sector) ==
    IF \E x \in high : StrIn(x, sector) THEN <<1, 1>>
    ELSE IF \E x \in {S_Technology, S_Communication, S_Financial} : StrIn(x, sector)
    THEN <<3, 10>>
    ELSE <<1, 2>>

\* C6: with a totalRevenue >= 0 the loss is (revenue / 365) x vulnerability x
\* disruption, the disruption lies in [0, 1] and the loss is >= 0; a revenue of
\* 36,500 million with 60 mm of rain loses 50 million in sector Energy and 15
\* million in sector Technology.
C6_LossFormula ==
    (Estimated /\ "totalRevenue" \in DOMAIN info /\ info.totalRevenue >= 0) =>
        LET sector == DictGetDefault(info, "sector", S_Unknown)
            factor == FirstMatchFactor({S_Energy, S_Basic_Materials, S_Industrials, S_Utilities}, sector)
            pct    == estimate.disruption_pct[1]
            loss   == estimate.estimated_loss[1]
        IN  /\ loss[1] * 365 * factor[2] * pct[2] = info.totalRevenue * factor[1] * pct[1] * loss[2]
            /\ FracLeq(<<0, 1>>, pct) /\ FracLeq(pct, <<1, 1>>)
            /\ FracLeq(<<0, 1>>, loss)
            /\ (info.totalRevenue = 36500 /\ rain = Some(600) /\ sector = S_Energy)
                  => loss = <<50, 1>>
            /\ (info.totalRevenue = 36500 /\ rain = Some(600) /\ sector = S_Technology)
                  => loss = <<15, 1>>

C6_Witness ==
    /\ pc = "done"
    /\ info = [sector |-> S_Technology, totalRevenue |-> 36500]
    /\ rain = Some(600)
    /\ estimate.daily_revenue = Some(<<100, 1>>)
    /\ estimate.estimated_loss = Some(<<15, 1>>)

\* C7: the disruption is 0.50 from 50 mm, 0.15 from 20 mm, 0.02 from 5 mm and
\* 0 below, each bound included, and 0.1 mm more rain on the same profile
\* never gives a smaller disruption.
C7_DisruptionStep ==
    (Estimated /\ estimate.disruption_pct # None) =>
        /\ estimate.disruption_pct[1] =
              IF rain[1] >= 500 THEN <<1, 2>>
              ELSE IF rain[1] >= 200 THEN <<3, 20>>
              ELSE IF rain[1] >= 50 THEN <<1, 50>>
              ELSE <<0, 1>>
        /\ FracLeq(estimate.disruption_pct[1],
                   calculate_revenue_at_risk(info, Some(rain[1] + 1)).disruption_pct[1])

C7_Witness ==
    /\ pc = "done"
    /\ rain = Some(500)
    /\ estimate.disruption_pct = Some(<<1, 2>>)

\* C8 as claimed: the loss is taken with factor 1.0 for a sector containing
\* Energy, Basic Materials, Materials, Industrials or Utilities, else 0.3 for
\* Technology, Communication or Financial, else 0.5.
C8_VulnerabilityAsClaimed ==
    (Estimated /\ "totalRevenue" \in DOMAIN info) =>
        estimate.estimated_loss[1] =
            FracMul(FracMul(estimate.daily_revenue[1],
                            FirstMatchFactor({S_Energy, S_Basic_Materials, S_Materials,
                                              S_Industrials, S_Utilities},
                                             DictGetDefault(info, "sector", S_Unknown))),
                    estimate.disruption_pct[1])

\* C8 amended: the loss is taken with factor 1.0 for a sector containing
\* Energy, Basic Materials, Industrials or Utilities (also when it contains a
\* keyword of the second set), else 0.3 for Technology, Communication or
\* Financial, else 0.5: a missing sector, and "Materials" without "Basic".
C8_VulnerabilityFirstMatch ==
    (Estimated /\ "totalRevenue" \in DOMAIN info) =>
        estimate.estimated_loss[1] =
            FracMul(FracMul(estimate.daily_revenue[1],
                            FirstMatchFactor({S_Energy, S_Basic_Materials,
                                              S_Industrials, S_Utilities},
                                             DictGetDefault(info, "sector", S_Unknown))),
                    estimate.disruption_pct[1])

C8_Witness ==
    /\ pc = "done"
    /\ info = [sector |-> S_Energy_Technology, totalRevenue |-> 36500]
    /\ rain = Some(600)
    /\ estimate.estimated_loss = Some(<<50, 1>>)

\* the weather provider answered with both fields, each a list whose first
\* element is a number
WeatherComplete(r) ==
    /\ r.kind = "json"
    /\ "daily" \in DOMAIN r.body
    /\ {"precipitation_sum", "windspeed_10m_max"} \subseteq DOMAIN r.body.daily
    /\ Len(r.body.daily.precipitation_sum) > 0
    /\ Len(r.body.daily.windspeed_10m_max) > 0
    /\ r.body.daily.precipitation_sum[1] # None
    /\ r.body.daily.windspeed_10m_max[1] # None

\* C9: when the weather request fails or its answer is malformed or lacks a
\* field or holds a null, get_live_weather_risk returns (0, 0).
C9_AllOrNothing ==
    (WeatherDone /\ resp # NotAsked /\ ~WeatherComplete(resp))
        => (rain = Some(0) /\ wind = Some(0))

\* C10: in app.py the ESG label is never undefined; a live score is used when
\* one is obtained; otherwise the score embedded in the profile is used and
\* labelled an estimate; with no score anywhere the result is (None, "N/A").
C10_EsgNeverUndefined ==
    (EsgDone /\ app = "root") =>
        /\ esg_label # None
        /\ (stock # None /\ sus.kind = "frame") => raw_esg = Some(sus.totalEsg)
        /\ ~(stock # None /\ sus.kind = "frame") =>
              IF EmbeddedEsg(info) # None
              THEN raw_esg = EmbeddedEsg(info) /\ esg_label = Some("Est. (Medium Risk)")
              ELSE raw_esg = None /\ esg_label = Some("N/A")

\* C11: whatever the live financial fetch, the geocoder, the weather provider
\* and the sustainability query answer (a result, an empty or partly null
\* record, an exception), no exception reaches the script: the run goes
\* through to the revenue-at-risk estimate.
C11_NoExceptionEscapes ==
    /\ exception = ""
    /\ pc \notin {"crashed", "error_shown"}

\* the live tier takes the fetched record: geo-risk-sentry-poc/app.py asks
\* for 'longName', app.py for 'longName' or 'symbol'
LiveAccepted(a, l) ==
    /\ l.kind = "info"
    /\ \/ "longName" \in DOMAIN l.info
       \/ a = "root" /\ "symbol" \in DOMAIN l.info

\* C12: a live answer without a display name is a failure, and a profile
\* reported LIVE (is_demo_mode = False) has a display name.
C12_LiveHasDisplayName ==
    ProfileResolved =>
        /\ (live.kind = "info" /\ "longName" \notin DOMAIN live.info) => is_demo_mode
        /\ ~is_demo_mode => "longName" \in DOMAIN info

\* what the two files do: the profile is LIVE exactly when the fetched record
\* has a display name (in app.py: a display name or a symbol); then it is the
\* fetched record with its live handle. Every other answer is a failure: the
\* profile is the one the curated and synthetic tiers give, without a handle.
LiveIffAccepted ==
    ProfileResolved =>
        /\ ~is_demo_mode <=> LiveAccepted(app, live)
        /\ ~is_demo_mode =>
              /\ info = live.info
              /\ stock = Some(Ticker(ticker))
              /\ "longName" \in DOMAIN info \/ (app = "root" /\ "symbol" \in DOMAIN info)
        /\ is_demo_mode =>
              /\ stock = None
              /\ info = get_stock_data_safe(app, ticker, [kind |-> "raise"]).info

\* C13 as stated: the asset label follows from the layer alone, for every
\* ticker: "corporate headquarters", "primary manufacturing facility",
\* "logistics hub".
C13_LabelByLayerAlone ==
    LocationChosen =>
        asset_label =
            IF asset_type = "Headquarters (Corporate)" THEN "corporate headquarters"
            ELSE IF asset_type = "Primary Factory (Manufacturing)"
            THEN "primary manufacturing facility"
            ELSE "logistics hub"

\* C13: the asset label follows from the layer and from whether ASSET_DB has
\* the ticker: the headquarters layer, and every layer of a ticker without a
\* record, give "corporate headquarters"; with a record the factory layer
\* gives "primary manufacturing facility" and the logistics layer gives
\* "logistics hub" (app.py) or "logistics and supply chain hub" (poc file).
C13_LabelByLayerAndRecord ==
    LocationChosen =>
        asset_label =
            IF asset_type = "Headquarters (Corporate)" \/ ticker \notin DOMAIN ASSET_DB
            THEN "corporate headquarters"
            ELSE IF asset_type = "Primary Factory (Manufacturing)"
            THEN "primary manufacturing facility"
            ELSE IF app = "root" THEN "logistics hub"
            ELSE "logistics and supply chain hub"

\* the factory layer of a ticker without a record keeps the headquarters label
C13_Witness ==
    /\ LocationChosen
    /\ ticker = K_XYZ
    /\ asset_type = "Primary Factory (Manufacturing)"
    /\ asset_label = "corporate headquarters"
    /\ ~is_exact_match

\* the qualitative level of a total ESG score (tenths) by the thresholds
\* 10, 20, 30 and 40
EsgLevel(total_score) ==
    IF total_score < 100 THEN "Negligible"
    ELSE IF total_score < 200 THEN "Low"
    ELSE IF total_score < 300 THEN "Medium"
    ELSE IF total_score < 400 THEN "High"
    ELSE "Severe"

\* the qualitative level a label of either file names
LevelOfLabel(label) ==
    IF label \in {"Negligible", "Negligible Risk (Top)"} THEN "Negligible"
    ELSE IF label \in {"Low Risk", "Low Risk (Good)"} THEN "Low"
    ELSE IF label \in {"Medium Risk", "Est. (Medium Risk)"} THEN "Medium"
    ELSE IF label = "High Risk" THEN "High"
    ELSE IF label = "Severe Risk" THEN "Severe"
    ELSE "none"

\* C14: every numeric ESG score, live or embedded in the profile, carries the
\* label of its level: below 10 Negligible, below 20 Low, below 30 Medium,
\* below 40 High, otherwise Severe.
C14_LabelByThreshold ==
    (EsgDone /\ raw_esg # None) =>
        /\ esg_label # None
        /\ LevelOfLabel(esg_label[1]) = EsgLevel(raw_esg[1])

\* the requests for (la, lo) that were sent less than CACHE_TTL seconds ago
FreshRequests(la, lo) ==
    {i \in 1..Len(provider_requests) :
        /\ provider_requests[i].lat = la
        /\ provider_requests[i].lon = lo
        /\ now < provider_requests[i].at + CACHE_TTL}

\* this step is a call of get_live_weather_risk that is answered with the
\* result of the latest request for the same pair, without a new request
AnsweredFromCache ==
    LET p == weather_calls'[Len(weather_calls')]
        i == CHOOSE i \in FreshRequests(p[1], p[2]) :
                 \A j \in FreshRequests(p[1], p[2]) : j <= i
    IN  /\ provider_requests' = provider_requests
        /\ <<rain', wind'>> = provider_requests[i].value

\* this step is a call of get_live_weather_risk that sends one request, for
\* the pair of the call, and returns what that request gave
AnsweredByProvider ==
    LET p == weather_calls'[Len(weather_calls')]
        n == Len(provider_requests')
    IN  /\ n = Len(provider_requests) + 1
        /\ SubSeq(provider_requests', 1, n - 1) = provider_requests
        /\ provider_requests'[n].lat = p[1]
        /\ provider_requests'[n].lon = p[2]
        /\ provider_requests'[n].at = now
        /\ <<rain', wind'>> = provider_requests'[n].value

\* this step is a call of get_live_weather_risk that follows the cache
\* discipline: within the time-to-live of a request for the same pair it is
\* answered with that request's result, otherwise it asks the provider
CallFollowsCache ==
    LET p == weather_calls'[Len(weather_calls')]
    IN  IF FreshRequests(p[1], p[2]) # {} THEN AnsweredFromCache
        ELSE AnsweredByProvider

\* C15: a call for a pair within the time-to-live of a request for that pair
\* returns that request's result without a new request; in every other
\* case, another pair or an expired entry, the call asks the provider for
\* its own pair.
C15_CachedPerPair ==
    [][weather_calls' # weather_calls => CallFollowsCache]_vars

\* what the two files do: the calls of app.py follow the cache discipline;
\* in geo-risk-sentry-poc/app.py every call asks the provider
CachedInRootOnly ==
    [][weather_calls' # weather_calls =>
          IF app = "root" THEN CallFollowsCache ELSE AnsweredByProvider]_vars

\* app.py after three calls for one pair: the second, 250 s after the first,
\* came from the cache, the third, 750 s after the first, asked again
CacheHitThenExpiry ==
    /\ app = "root"
    /\ Len(weather_calls) = 3
    /\ weather_calls[1] = weather_calls[2]
    /\ weather_calls[2] = weather_calls[3]
    /\ Len(provider_requests) = 2
    /\ provider_requests[1].at = 0
    /\ provider_requests[2].at >= CACHE_TTL
    /\ resp # NotAsked

\* the profile and the location a run resolves for ticker t and layer atype
\* when the live fetch answers l and the geocoder answers g
Resolved(a, t, atype, l, g) ==
    LET p  == get_stock_data_safe(a, t, l)
        hq == [lat |-> get_coordinates(g)[1],
               lon |-> get_coordinates(g)[2],
               location_name |-> [fmt |-> "{city} (HQ)",
                                  city |-> DictGetDefault(p.info, "city", "Unknown")],
               asset_label |-> "corporate headquarters",
               is_exact_match |-> FALSE]
    IN  [info |-> p.info, is_demo_mode |-> p.is_demo_mode,
         location |-> asset_override(a, t, atype, hq)]

\* C16: the ticker is used in upper case: a run resolves the profile and the
\* location (coordinates, name, label, is_exact_match) that the same layer
\* and the same answers give for ticker.upper().
C16_CaseNormalized ==
    pc = "weather" =>
        LET r == Resolved(app, StrUpper(ticker), asset_type, live, geo)
        IN  /\ info = r.info
            /\ is_demo_mode = r.is_demo_mode
            /\ lat = r.location.lat
            /\ lon = r.location.lon
            /\ location_name = r.location.location_name
            /\ asset_label = r.location.asset_label
            /\ is_exact_match = r.location.is_exact_match

\* the default coordinates of the else branch
DefaultPair == <<weather_else(None, None).lat, weather_else(None, None).lon>>

\* C17: get_live_weather_risk is called exactly when the resolved latitude
\* is truthy, once, with the resolved pair, and (no entry being cached yet)
\* sends one request for that pair; otherwise, a latitude of 0 included,
\* there is no call and no request, rain and wind are 0 and the coordinates
\* are the default pair.
C17_CalledIffLatTruthy ==
    WeatherDone =>
        LET loc == Resolved(app, ticker, asset_type, live, geo).location
        IN  IF loc.lat # None /\ loc.lat # Some(0)
            THEN /\ weather_calls = << <<loc.lat, loc.lon>> >>
                 /\ Len(provider_requests) = 1
                 /\ provider_requests[1].lat = loc.lat
                 /\ provider_requests[1].lon = loc.lon
                 /\ lat = loc.lat /\ lon = loc.lon
            ELSE /\ weather_calls = <<>>
                 /\ provider_requests = <<>>
                 /\ resp = NotAsked
                 /\ rain = Some(0) /\ wind = Some(0)
                 /\ <<lat, lon>> = DefaultPair

\* C17 as stated: that, and the default pair is never sent to the provider.
C17_DefaultNeverSent ==
    /\ C17_CalledIffLatTruthy
    /\ \A i \in 1..Len(provider_requests) :
          <<provider_requests[i].lat, provider_requests[i].lon>> # DefaultPair

\* the geocoder found a place on the equator: no call, and the default pair
C17_Witness ==
    /\ WeatherDone
    /\ geo.kind = "match" /\ geo.latitude = 0
    /\ asset_type = "Headquarters (Corporate)"
    /\ weather_calls = <<>>
    /\ rain = Some(0) /\ wind = Some(0)
    /\ <<lat, lon>> = DefaultPair

====
